---- MODULE Spec2Model ----
(***************************************************************************)
(* Model of holochain_client's AdminWebsocket (src/src/admin_websocket.rs):*)
(* connect with retry, close, the fifteen admin operations built on send,  *)
(* and authorize_signing_credentials.                                      *)
(*                                                                         *)
(* Option<T> is a sequence of length 0 (None) or 1 (Some).  Strings that   *)
(* the code parses are sequences of one-character strings.                 *)
(***************************************************************************)
EXTENDS Integers, Sequences, FiniteSets, TLC

VARIABLES
    phase,          \* "new" | "connecting" | "ready" | "failed" | "panicked"
    addr,           \* admin_url given to connect
    attempts,       \* transport connect() attempts made by again::retry
    retriesLeft,    \* retries again's policy still allows
    okAttempts,     \* attempts that returned Ok
    lastErr,        \* error of the most recent failed attempt
    connectResult,  \* what connect returned
    handle,         \* self.rx's receiver handle, an Option
    closeCalls,     \* close() invocations so far
    handleCloses,   \* h.close() invocations so far
    status,         \* "idle" | "awaiting" | "resolved": the method call in progress
    call,           \* the current or most recent method call
    inflight,       \* requests handed to tx.request and not yet answered
    framesSent,     \* request frames the current call has sent
    outcome,        \* what tx.request returned to the most recent call
    result,         \* what the most recent method call returned
    served          \* a call on this client has completed with a success value
                    \* or a host-reported error

vars == <<phase, addr, attempts, retriesLeft, okAttempts, lastErr, connectResult,
          handle, closeCalls, handleCloses,
          status, call, inflight, framesSent, outcome, result, served>>

connVars == <<addr, attempts, retriesLeft, okAttempts, lastErr, connectResult>>
closeVars == <<handle, closeCalls, handleCloses>>
callVars == <<status, call, inflight, framesSent, outcome, result, served>>

----------------------------------------------------------------------------
(* Bounds of the model *)

\* close() may be called this many times on one client
MaxCloseCalls == 3

(* Program and library constants *)

\* again::retry uses RetryPolicy::default(), whose max_retries is 5
MaxRetries == 5
\* holochain_zome_types::capability::CAP_SECRET_BYTES
CAP_SECRET_BYTES == 64
\* AgentPubKey::from_raw_32 takes the 32 bytes of the ed25519 verifying key
RAW_32 == 32

----------------------------------------------------------------------------
(* Url::parse, as far as connect depends on it: the scheme, and for the    *)
(* special schemes the host and the port.                                  *)

Alpha == {"w", "s", "h"}
Digit == {"1", "9"}
SpecialSchemes == {<<"w", "s">>, <<"w", "s", "s">>}

\* "ws://h:1", "h:1", "1:1", "", "ws://", "h", "ws://h:s", "ws:h"
Addresses ==
    { <<"w", "s", ":", "/", "/", "h", ":", "1">>,
      <<"h", ":", "1">>,
      <<"1", ":", "1">>,
      <<>>,
      <<"w", "s", ":", "/", "/">>,
      <<"h">>,
      <<"w", "s", ":", "/", "/", "h", ":", "s">>,
      <<"w", "s", ":", "h">> }

IsSchemeChar(c) == c \in Alpha \cup Digit \cup {"+", "-", "."}

Min(S) == CHOOSE m \in S : \A n \in S : m <= n

\* index of the ":" ending the scheme, 0 when the input has no scheme
SchemeEnd(s) ==
    LET colons == {i \in 1..Len(s) : s[i] = ":"} IN
    IF colons = {} THEN 0
    ELSE LET i == Min(colons) IN
         IF i > 1 /\ s[1] \in Alpha /\ \A j \in 1..(i - 1) : IsSchemeChar(s[j])
         THEN i ELSE 0

RECURSIVE StripSlashes(_)
StripSlashes(s) ==
    IF s # <<>> /\ Head(s) = "/" THEN StripSlashes(Tail(s)) ELSE s

\* the authority of a special URL: what precedes the first "/" of the rest
Authority(rest) ==
    LET slashes == {i \in 1..Len(rest) : rest[i] = "/"} IN
    IF slashes = {} THEN rest ELSE SubSeq(rest, 1, Min(slashes) - 1)

UrlHost(auth) ==
    LET colons == {i \in 1..Len(auth) : auth[i] = ":"} IN
    IF colons = {} THEN auth ELSE SubSeq(auth, 1, Min(colons) - 1)

UrlPort(auth) ==
    LET colons == {i \in 1..Len(auth) : auth[i] = ":"} IN
    IF colons = {} THEN <<>> ELSE SubSeq(auth, Min(colons) + 1, Len(auth))

ParseOk(scheme, host, port) ==
    [ok |-> TRUE, err |-> "none", scheme |-> scheme, host |-> host, port |-> port]
ParseErr(e) ==
    [ok |-> FALSE, err |-> e, scheme |-> <<>>, host |-> <<>>, port |-> <<>>]

UrlParse(s) ==
    LET i == SchemeEnd(s) IN
    IF i = 0 THEN ParseErr("RelativeUrlWithoutBase")
    ELSE LET scheme == SubSeq(s, 1, i - 1)
             rest == SubSeq(s, i + 1, Len(s))
         IN  IF scheme \in SpecialSchemes
             THEN LET auth == Authority(StripSlashes(rest)) IN
                  IF UrlHost(auth) = <<>> THEN ParseErr("EmptyHost")
                  ELSE IF \E k \in 1..Len(UrlPort(auth)) : UrlPort(auth)[k] \notin Digit
                       THEN ParseErr("InvalidPort")
                       ELSE ParseOk(scheme, UrlHost(auth), UrlPort(auth))
             ELSE ParseOk(scheme, <<>>, <<>>)

----------------------------------------------------------------------------
(* Errors and results *)

\* WebsocketError values the transport can return
TransportErrors == {"Shutdown", "Io"}

NoErr == [type |-> "none", val |-> <<>>]
NoResult == [kind |-> "None", value |-> <<>>, err |-> NoErr]
Ok(v) == [kind |-> "Ok", value |-> v, err |-> NoErr]
Err(type, val) == [kind |-> "Err", value |-> <<>>, err |-> [type |-> type, val |-> val]]

----------------------------------------------------------------------------
(* AdminWebsocket::connect *)

\* connect without the address check
ConnectParse_Unchecked(a) ==
    [kind |-> "Ok", value |-> <<UrlParse(a)>>, err |-> [type |-> "none", val |-> <<>>]]

\* Url::parse(&admin_url).context("invalid ws:// URL")?
ConnectParse(a) ==
    LET p == UrlParse(a) IN
    IF p.ok THEN Ok(<<p>>) ELSE Err("invalid ws:// URL", <<p.err>>)

\* a retry that gives up at the first failure
RetryStep_NoRetry(r, left) ==
    IF r.ok THEN [done |-> TRUE, res |-> Ok(<<"tx", "rx">>), left |-> left]
    ELSE [done |-> TRUE, res |-> Err("WebsocketError", <<r.err>>), left |-> left]

\* a retry that allows one attempt too many
RetryStep_OffByOne(r, left) ==
    IF r.ok THEN [done |-> TRUE, res |-> Ok(<<"tx", "rx">>), left |-> left]
    ELSE IF left >= 0
         THEN [done |-> FALSE, res |-> NoResult, left |-> left - 1]
         ELSE [done |-> TRUE, res |-> Err("WebsocketError", <<r.err>>), left |-> left]

\* again::retry: one poll of the task; r is what connect(url, config) returned
RetryStep(r, left) ==
    IF r.ok THEN [done |-> TRUE, res |-> Ok(<<"tx", "rx">>), left |-> left]
    ELSE IF left > 0
         THEN [done |-> FALSE, res |-> NoResult, left |-> left - 1]
         ELSE [done |-> TRUE, res |-> Err("WebsocketError", <<r.err>>), left |-> left]

TransportOutcomes ==
    {[ok |-> TRUE, err |-> "none"]} \cup {[ok |-> FALSE, err |-> e] : e \in TransportErrors}

Connect(a) ==
    /\ phase = "new"
    /\ addr' = a
    /\ LET u == ConnectParse(a) IN
       IF u.kind = "Err"
       THEN /\ phase' = "failed"
            /\ connectResult' = u
            /\ UNCHANGED retriesLeft
       ELSE /\ phase' = "connecting"
            /\ retriesLeft' = MaxRetries
            /\ UNCHANGED connectResult
    /\ UNCHANGED <<attempts, okAttempts, lastErr>>
    /\ UNCHANGED closeVars
    /\ UNCHANGED callVars

Attempt(r) ==
    /\ phase = "connecting"
    /\ attempts' = attempts + 1
    /\ okAttempts' = IF r.ok THEN okAttempts + 1 ELSE okAttempts
    /\ lastErr' = IF r.ok THEN lastErr ELSE r.err
    /\ LET s == RetryStep(r, retriesLeft) IN
       /\ retriesLeft' = s.left
       /\ IF s.done
          THEN /\ connectResult' = s.res
               /\ phase' = IF s.res.kind = "Ok" THEN "ready" ELSE "failed"
               /\ handle' = IF s.res.kind = "Ok" THEN <<"h">> ELSE handle
          ELSE UNCHANGED <<connectResult, phase, handle>>
    /\ UNCHANGED <<addr, closeCalls, handleCloses>>
    /\ UNCHANGED callVars

----------------------------------------------------------------------------
(* AdminWebsocket::close *)

\* a handle that is read but left in place
TakeHandle_Peek(h) == [taken |-> h, left |-> h]

\* WebsocketReceiver::take_handle: the handle, and what is left in self.rx
TakeHandle(h) == [taken |-> h, left |-> <<>>]

\* close(&mut self): the exclusive borrow keeps it from running while a method
\* of the same client is suspended
Close ==
    /\ phase = "ready"
    /\ status # "awaiting"
    /\ closeCalls < MaxCloseCalls
    /\ closeCalls' = closeCalls + 1
    /\ LET t == TakeHandle(handle) IN
       /\ handle' = t.left
       /\ handleCloses' = IF t.taken # <<>> THEN handleCloses + 1 ELSE handleCloses
    /\ UNCHANGED phase
    /\ UNCHANGED connVars
    /\ UNCHANGED callVars

----------------------------------------------------------------------------
(* AdminRequest and AdminResponse values *)

AgentKeys == {"agent1", "agent2"}
CellIds == {<<"dna1", "agent1">>, <<"dna2", "agent2">>}
AppIds == {"app1", "app2"}
AppInfos == {"info1", "info2"}
DnaHashes == {"dna1", "dna2"}
DnaDefs == {"def1", "def2"}
StorageInfos == {"storage1", "storage2"}
Stats == {"stats1", "stats2"}
RequestPorts == {0, 30000}
\* ports a host reports as bound: a bound TCP port is never 0
BoundPorts == {30000, 40000}
PortLists == {<<>>, <<30000, 40000>>}
AppLists == {<<>>, <<"info1", "info2">>}
ErrorLists == {<<>>, << <<<<"dna1", "agent1">>, "failed to start">> >>}
StatusFilters == {<<>>, <<"Enabled">>}
InstallPayloads == {"install1", "install2"}
DeletePayloads == {"delete1", "delete2"}
CoordinatorPayloads == {"coordinators1", "coordinators2"}
RecordLists == {<<>>, <<"record1">>}
Messages == {"unknown cell", "internal error"}

AllFunctions == [kind |-> "All", fns |-> {}]
ListedFunctions == [kind |-> "Listed", fns |-> {<<"foo", "foo">>}]
\* request.functions: Option<GrantedFunctions>
FunctionOptions == {<<>>, <<AllFunctions>>, <<ListedFunctions>>}

\* what SigningKey::generate and fill_bytes can draw
KeySeeds == {3, 5}
SecretFills ==
    {[i \in 1..CAP_SECRET_BYTES |-> 255], [i \in 1..CAP_SECRET_BYTES |-> (7 * i) % 256]}

\* keypair.verifying_key().as_bytes().to_vec()
VerifyingKeyBytes(keypair) == [i \in 1..RAW_32 |-> (keypair * i + 1) % 256]
\* AgentPubKey::from_raw_32
AgentPubKeyFromRaw32(bytes) == [type |-> "AgentPubKey", raw |-> bytes]
\* a secret cut to the length of a key
CapSecretFrom_Truncated(bytes) == [type |-> "CapSecret", bytes |-> SubSeq(bytes, 1, RAW_32)]

\* cap_secret.into(): [u8; CAP_SECRET_BYTES] -> CapSecret
CapSecretFrom(bytes) == [type |-> "CapSecret", bytes |-> bytes]

GrantPayloads ==
    {[cell_id |-> c,
      cap_grant |-> [tag |-> "manual", access |-> [kind |-> "Unrestricted"],
                     functions |-> AllFunctions]] : c \in CellIds}

AdminOps ==
    {"generate_agent_pub_key", "list_app_interfaces", "attach_app_interface",
     "list_apps", "install_app", "uninstall_app", "enable_app", "disable_app",
     "get_dna_definition", "grant_zome_call_capability", "delete_clone_cell",
     "storage_info", "dump_network_stats", "update_coordinators", "graft_records"}

\* the arguments each method can be called with
Args(op) ==
    CASE op = "attach_app_interface" -> {<<p>> : p \in RequestPorts}
      [] op = "list_apps" -> {<<f>> : f \in StatusFilters}
      [] op = "install_app" -> {<<p>> : p \in InstallPayloads}
      [] op \in {"uninstall_app", "enable_app", "disable_app"} -> {<<a>> : a \in AppIds}
      [] op = "get_dna_definition" -> {<<h>> : h \in DnaHashes}
      [] op = "grant_zome_call_capability" -> {<<g>> : g \in GrantPayloads}
      [] op = "delete_clone_cell" -> {<<p>> : p \in DeletePayloads}
      [] op = "update_coordinators" -> {<<p>> : p \in CoordinatorPayloads}
      [] op = "graft_records" ->
            {<<<<"dna1", "agent1">>, v, r>> : v \in BOOLEAN, r \in RecordLists}
      [] op = "authorize_signing_credentials" ->
            {<<[cell_id |-> c, functions |-> f]>> : c \in CellIds, f \in FunctionOptions}
      [] OTHER -> {<<>>}

Req(tag, payload) == [tag |-> tag, payload |-> payload]

\* attach_app_interface turning port 0 into no requested port
BuildRequest_ZeroIsNone(op, arg) ==
    CASE op = "generate_agent_pub_key" -> Req("GenerateAgentPubKey", <<>>)
      [] op = "list_app_interfaces" -> Req("ListAppInterfaces", <<>>)
      [] op = "attach_app_interface" -> Req("AttachAppInterface",
                                              <<IF arg[1] = 0 THEN <<>> ELSE <<arg[1]>> >>)
      [] op = "list_apps" -> Req("ListApps", <<arg[1]>>)
      [] op = "install_app" -> Req("InstallApp", <<arg[1]>>)
      [] op = "uninstall_app" -> Req("UninstallApp", <<arg[1]>>)
      [] op = "enable_app" -> Req("EnableApp", <<arg[1]>>)
      [] op = "disable_app" -> Req("DisableApp", <<arg[1]>>)
      [] op = "get_dna_definition" -> Req("GetDnaDefinition", <<arg[1]>>)
      [] op = "grant_zome_call_capability" -> Req("GrantZomeCallCapability", <<arg[1]>>)
      [] op = "delete_clone_cell" -> Req("DeleteCloneCell", <<arg[1]>>)
      [] op = "storage_info" -> Req("StorageInfo", <<>>)
      [] op = "dump_network_stats" -> Req("DumpNetworkStats", <<>>)
      [] op = "update_coordinators" -> Req("UpdateCoordinators", <<arg[1]>>)
      [] op = "graft_records" -> Req("GraftRecords", <<arg[1], arg[2], arg[3]>>)

\* the AdminRequest each admin operation builds from its arguments
BuildRequest(op, arg) ==
    CASE op = "generate_agent_pub_key" -> Req("GenerateAgentPubKey", <<>>)
      [] op = "list_app_interfaces" -> Req("ListAppInterfaces", <<>>)
      [] op = "attach_app_interface" -> Req("AttachAppInterface", << <<arg[1]>> >>)
      [] op = "list_apps" -> Req("ListApps", <<arg[1]>>)
      [] op = "install_app" -> Req("InstallApp", <<arg[1]>>)
      [] op = "uninstall_app" -> Req("UninstallApp", <<arg[1]>>)
      [] op = "enable_app" -> Req("EnableApp", <<arg[1]>>)
      [] op = "disable_app" -> Req("DisableApp", <<arg[1]>>)
      [] op = "get_dna_definition" -> Req("GetDnaDefinition", <<arg[1]>>)
      [] op = "grant_zome_call_capability" -> Req("GrantZomeCallCapability", <<arg[1]>>)
      [] op = "delete_clone_cell" -> Req("DeleteCloneCell", <<arg[1]>>)
      [] op = "storage_info" -> Req("StorageInfo", <<>>)
      [] op = "dump_network_stats" -> Req("DumpNetworkStats", <<>>)
      [] op = "update_coordinators" -> Req("UpdateCoordinators", <<arg[1]>>)
      [] op = "graft_records" -> Req("GraftRecords", <<arg[1], arg[2], arg[3]>>)

Resp(tag, payload) == [tag |-> tag, payload |-> payload]

\* the well-formed AdminResponse values the host can answer with
Responses ==
    {Resp("Error", <<m>>) : m \in Messages}
    \cup {Resp("AgentPubKeyGenerated", <<k>>) : k \in AgentKeys}
    \cup {Resp("AppInterfacesListed", <<l>>) : l \in PortLists}
    \cup {Resp("AppInterfaceAttached", <<p>>) : p \in BoundPorts}
    \cup {Resp("AppsListed", <<l>>) : l \in AppLists}
    \cup {Resp("AppInstalled", <<a>>) : a \in AppInfos}
    \cup {Resp("AppEnabled", <<a, e>>) : a \in AppInfos, e \in ErrorLists}
    \cup {Resp("DnaDefinitionReturned", <<d>>) : d \in DnaDefs}
    \cup {Resp("StorageInfo", <<i>>) : i \in StorageInfos}
    \cup {Resp("NetworkStatsDumped", <<s>>) : s \in Stats}
    \cup {Resp(t, <<>>) : t \in {"AppUninstalled", "AppDisabled", "ZomeCallCapabilityGranted",
                                 "CloneCellDeleted", "CoordinatorsUpdated", "RecordsGrafted"}}

NoResp == Resp("none", <<>>)
RequestOk(resp) == [ok |-> TRUE, resp |-> resp, err |-> "none"]
RequestErr(e) == [ok |-> FALSE, resp |-> NoResp, err |-> e]
\* what tx.request can return
RequestOutcomes == {RequestOk(r) : r \in Responses} \cup {RequestErr(e) : e \in TransportErrors}

----------------------------------------------------------------------------
(* AdminWebsocket::send and the response match of each admin operation *)

\* send without its Error arm: the Error variant is handed on as a response
SendResult_NoErrorArm(o) ==
    IF ~o.ok THEN [kind |-> "Err", value |-> <<>>,
                   err |-> [type |-> "WebsocketError", val |-> <<o.err>>]]
    ELSE [kind |-> "Ok", value |-> <<o.resp>>, err |-> [type |-> "none", val |-> <<>>]]

\* send: o is what self.tx.request(msg).await returned
SendResult(o) ==
    IF ~o.ok THEN Err("WebsocketError", <<o.err>>)
    ELSE IF o.resp.tag = "Error" THEN Err("ExternalApiWireError", <<o.resp.payload[1]>>)
    ELSE Ok(<<o.resp>>)

\* the one AdminResponse variant each operation's match has an arm for
Accepted(op) ==
    CASE op = "generate_agent_pub_key" -> "AgentPubKeyGenerated"
      [] op = "list_app_interfaces" -> "AppInterfacesListed"
      [] op = "attach_app_interface" -> "AppInterfaceAttached"
      [] op = "list_apps" -> "AppsListed"
      [] op = "install_app" -> "AppInstalled"
      [] op = "uninstall_app" -> "AppUninstalled"
      [] op = "enable_app" -> "AppEnabled"
      [] op = "disable_app" -> "AppDisabled"
      [] op = "get_dna_definition" -> "DnaDefinitionReturned"
      [] op = "grant_zome_call_capability" -> "ZomeCallCapabilityGranted"
      [] op = "delete_clone_cell" -> "CloneCellDeleted"
      [] op = "storage_info" -> "StorageInfo"
      [] op = "dump_network_stats" -> "NetworkStatsDumped"
      [] op = "update_coordinators" -> "CoordinatorsUpdated"
      [] op = "graft_records" -> "RecordsGrafted"

Returned(res) == [panic |-> FALSE, res |-> res]
\* unreachable!("Unexpected response {:?}", response)
Unreachable == [panic |-> TRUE, res |-> NoResult]

\* enable_app losing the per-cell errors of AppEnabled
Unwrap_DropErrors(op, response) ==
    CASE op \in {"uninstall_app", "disable_app", "grant_zome_call_capability",
                 "delete_clone_cell", "update_coordinators", "graft_records"} -> Ok(<<>>)
      [] op = "enable_app" -> Ok(<<[app |-> response.payload[1], errors |-> <<>>]>>)
      [] OTHER -> Ok(<<response.payload[1]>>)

\* the Ok arm of each operation's match: what it makes of the accepted variant
Unwrap(op, response) ==
    CASE op \in {"uninstall_app", "disable_app", "grant_zome_call_capability",
                 "delete_clone_cell", "update_coordinators", "graft_records"} -> Ok(<<>>)
      [] op = "enable_app" ->
            Ok(<<[app |-> response.payload[1], errors |-> response.payload[2]]>>)
      [] OTHER -> Ok(<<response.payload[1]>>)

\* match response { <accepted>(..) => Ok(..), _ => unreachable!(..) }
OpMatch(op, response) ==
    IF response.tag = Accepted(op) THEN Returned(Unwrap(op, response)) ELSE Unreachable

\* let response = self.send(msg).await?; match response { .. }
OpResult(op, o) ==
    LET s == SendResult(o) IN
    IF s.kind = "Err" THEN Returned(s) ELSE OpMatch(op, s.value[1])

----------------------------------------------------------------------------
(* AdminWebsocket::authorize_signing_credentials *)

\* a grant that is always made for the same cell
AuthorizeGrant_FixedCell(request, keypair, cap_secret) ==
    [cell_id |-> <<"dna1", "agent1">>,
     cap_grant |->
        [tag |-> "zome-call-signing-key",
         access |-> [kind |-> "Assigned",
                     secret |-> CapSecretFrom(cap_secret),
                     assignees |-> {AgentPubKeyFromRaw32(VerifyingKeyBytes(keypair))}],
         functions |-> IF request.functions = <<>> THEN AllFunctions
                       ELSE request.functions[1]]]

\* a grant that ignores the caller's function scope
AuthorizeGrant_AlwaysAll(request, keypair, cap_secret) ==
    [cell_id |-> request.cell_id,
     cap_grant |->
        [tag |-> "zome-call-signing-key",
         access |-> [kind |-> "Assigned",
                     secret |-> CapSecretFrom(cap_secret),
                     assignees |-> {AgentPubKeyFromRaw32(VerifyingKeyBytes(keypair))}],
         functions |-> AllFunctions]]

\* the GrantZomeCallCapabilityPayload handed to grant_zome_call_capability
AuthorizeGrant(request, keypair, cap_secret) ==
    LET signing_agent_key == AgentPubKeyFromRaw32(VerifyingKeyBytes(keypair)) IN
    [cell_id |-> request.cell_id,
     cap_grant |->
        [tag |-> "zome-call-signing-key",
         access |-> [kind |-> "Assigned",
                     secret |-> CapSecretFrom(cap_secret),
                     assignees |-> {signing_agent_key}],
         functions |-> IF request.functions = <<>> THEN AllFunctions
                       ELSE request.functions[1]]]

\* an anyhow error that drops the underlying error
AnyhowConductorApiError_Opaque(e) ==
    Err("anyhow", <<"Conductor API error: ">>)

\* anyhow::anyhow!("Conductor API error: {:?}", e)
AnyhowConductorApiError(e) ==
    Err("anyhow", <<"Conductor API error: ", e.type>> \o e.val)

\* credentials whose secret is the zeroed buffer, not the filled one
Credentials_ZeroSecret(keypair, cap_secret) ==
    [signing_agent_key |-> AgentPubKeyFromRaw32(VerifyingKeyBytes(keypair)),
     keypair |-> keypair,
     cap_secret |-> CapSecretFrom([i \in 1..CAP_SECRET_BYTES |-> 0])]

\* the SigningCredentials struct built after the grant succeeded
Credentials(keypair, cap_secret) ==
    [signing_agent_key |-> AgentPubKeyFromRaw32(VerifyingKeyBytes(keypair)),
     keypair |-> keypair,
     cap_secret |-> CapSecretFrom(cap_secret)]

\* .await.map_err(..)?; Ok(SigningCredentials { .. }); g is what the grant returned
AuthorizeResult(g, keypair, cap_secret) ==
    IF g.panic THEN Unreachable
    ELSE IF g.res.kind = "Err" THEN Returned(AnyhowConductorApiError(g.res.err))
    ELSE Returned(Ok(<<Credentials(keypair, cap_secret)>>))

----------------------------------------------------------------------------
(* Method calls on a connected client.  A call suspends at tx.request; the *)
(* host or the transport then resolves it.                                 *)

NoCall == [op |-> "none", arg |-> <<>>, keypair |-> 0, cap_secret |-> <<>>,
           request |-> Req("none", <<>>)]
NoOutcome == [ok |-> FALSE, resp |-> NoResp, err |-> "none"]

\* an admin operation that may be started while another is still suspended
CallAdmin_Pipelined(op, arg) ==
    /\ phase = "ready"
    /\ Len(inflight) < 2
    /\ op \in AdminOps
    /\ LET msg == BuildRequest(op, arg) IN
       /\ call' = [op |-> op, arg |-> arg, keypair |-> 0, cap_secret |-> <<>>,
                   request |-> msg]
       /\ inflight' = Append(inflight, msg)
    /\ framesSent' = 1
    /\ status' = "awaiting"
    /\ outcome' = NoOutcome
    /\ result' = NoResult
    /\ UNCHANGED <<phase, served>>
    /\ UNCHANGED connVars
    /\ UNCHANGED closeVars

\* an admin operation builds its request and awaits self.send(msg)
CallAdmin(op, arg) ==
    /\ phase = "ready"
    /\ status # "awaiting"
    /\ op \in AdminOps
    /\ LET msg == BuildRequest(op, arg) IN
       /\ call' = [op |-> op, arg |-> arg, keypair |-> 0, cap_secret |-> <<>>,
                   request |-> msg]
       /\ inflight' = Append(inflight, msg)
    /\ framesSent' = 1
    /\ status' = "awaiting"
    /\ outcome' = NoOutcome
    /\ result' = NoResult
    /\ UNCHANGED <<phase, served>>
    /\ UNCHANGED connVars
    /\ UNCHANGED closeVars

\* an authorize that asks the host for an agent key before it sends its grant
CallAuthorize_ExtraRequest(arg, keypair, cap_secret) ==
    /\ phase = "ready"
    /\ status # "awaiting"
    /\ LET msg == BuildRequest("grant_zome_call_capability",
                               <<AuthorizeGrant(arg[1], keypair, cap_secret)>>) IN
       /\ call' = [op |-> "authorize_signing_credentials", arg |-> arg,
                   keypair |-> keypair, cap_secret |-> cap_secret, request |-> msg]
       /\ inflight' = inflight \o <<Req("GenerateAgentPubKey", <<>>), msg>>
    /\ framesSent' = 2
    /\ status' = "awaiting"
    /\ outcome' = NoOutcome
    /\ result' = NoResult
    /\ UNCHANGED <<phase, served>>
    /\ UNCHANGED connVars
    /\ UNCHANGED closeVars

\* authorize_signing_credentials draws the key and the secret, then awaits the grant
CallAuthorize(arg, keypair, cap_secret) ==
    /\ phase = "ready"
    /\ status # "awaiting"
    /\ LET msg == BuildRequest("grant_zome_call_capability",
                               <<AuthorizeGrant(arg[1], keypair, cap_secret)>>) IN
       /\ call' = [op |-> "authorize_signing_credentials", arg |-> arg,
                   keypair |-> keypair, cap_secret |-> cap_secret, request |-> msg]
       /\ inflight' = Append(inflight, msg)
    /\ framesSent' = 1
    /\ status' = "awaiting"
    /\ outcome' = NoOutcome
    /\ result' = NoResult
    /\ UNCHANGED <<phase, served>>
    /\ UNCHANGED connVars
    /\ UNCHANGED closeVars

\* what the suspended method returns once tx.request has returned o
MethodResult(c, o) ==
    IF c.op = "authorize_signing_credentials"
    THEN AuthorizeResult(OpResult("grant_zome_call_capability", o), c.keypair, c.cap_secret)
    ELSE OpResult(c.op, o)

\* a send that sends its request once more when the first exchange fails
Resolve_ResendOnError(o) ==
    /\ phase = "ready"
    /\ status = "awaiting"
    /\ inflight # <<>>
    /\ outcome' = o
    /\ IF framesSent < 2 /\ (~o.ok \/ o.resp.tag = "Error")
       THEN /\ inflight' = Append(Tail(inflight), call.request)
            /\ framesSent' = framesSent + 1
            /\ UNCHANGED <<status, result, phase, served>>
       ELSE /\ inflight' = Tail(inflight)
            /\ status' = "resolved"
            /\ result' = MethodResult(call, o).res
            /\ phase' = IF MethodResult(call, o).panic THEN "panicked" ELSE phase
            /\ served' = (served \/ (o.ok /\ ~MethodResult(call, o).panic))
            /\ UNCHANGED framesSent
    /\ UNCHANGED call
    /\ UNCHANGED connVars
    /\ UNCHANGED closeVars

\* a send that drops the receiver handle when the host reports an error
Resolve_ClosesOnHostError(o) ==
    /\ phase = "ready"
    /\ status = "awaiting"
    /\ inflight # <<>>
    /\ inflight' = Tail(inflight)
    /\ outcome' = o
    /\ status' = "resolved"
    /\ result' = MethodResult(call, o).res
    /\ phase' = IF MethodResult(call, o).panic THEN "panicked" ELSE phase
    /\ served' = (served \/ (o.ok /\ ~MethodResult(call, o).panic))
    /\ handle' = IF o.ok /\ o.resp.tag = "Error" THEN <<>> ELSE handle
    /\ UNCHANGED <<call, framesSent, closeCalls, handleCloses>>
    /\ UNCHANGED connVars

\* tx.request returns o to the suspended call.  What it returns once the
\* receiver handle is closed is decided by holochain_websocket: every outcome is
\* allowed here, before and after close()
Resolve(o) ==
    /\ phase = "ready"
    /\ status = "awaiting"
    /\ inflight # <<>>
    /\ inflight' = Tail(inflight)
    /\ outcome' = o
    /\ status' = "resolved"
    /\ LET r == MethodResult(call, o) IN
       /\ result' = r.res
       /\ phase' = IF r.panic THEN "panicked" ELSE phase
       /\ served' = (served \/ (o.ok /\ ~r.panic))
    /\ UNCHANGED <<call, framesSent>>
    /\ UNCHANGED connVars
    /\ UNCHANGED closeVars

----------------------------------------------------------------------------

Init ==
    /\ phase = "new"
    /\ addr = <<>>
    /\ attempts = 0
    /\ retriesLeft = 0
    /\ okAttempts = 0
    /\ lastErr = "none"
    /\ connectResult = NoResult
    /\ handle = <<>>
    /\ closeCalls = 0
    /\ handleCloses = 0
    /\ status = "idle"
    /\ call = NoCall
    /\ inflight = <<>>
    /\ framesSent = 0
    /\ outcome = NoOutcome
    /\ result = NoResult
    /\ served = FALSE

Next ==
    \/ \E a \in Addresses : Connect(a)
    \/ \E r \in TransportOutcomes : Attempt(r)
    \/ Close
    \/ \E op \in AdminOps : \E arg \in Args(op) : CallAdmin(op, arg)
    \/ \E arg \in Args("authorize_signing_credentials") :
          \E k \in KeySeeds : \E b \in SecretFills : CallAuthorize(arg, k, b)
    \/ \E o \in RequestOutcomes : Resolve(o)

Spec == Init /\ [][Next]_vars

----------------------------------------------------------------------------
(* Properties *)

\* the most recent call was admin operation call.op, and the host answered it
AdminAnswered ==
    /\ status = "resolved"
    /\ call.op \in AdminOps
    /\ outcome.ok

\* C1: an admin operation answered with a well-formed variant that is neither
\* Error nor the accepted one returns a ProtocolViolation error and the client
\* does not panic.
C1_MismatchIsProtocolViolation ==
    (AdminAnswered /\ outcome.resp.tag \notin {"Error", Accepted(call.op)})
        => /\ phase # "panicked"
           /\ result.kind = "Err"
           /\ result.err.type = "ProtocolViolation"

\* C2: an admin operation answered with Error(m) returns the host-reported
\* error ExternalApiWireError carrying exactly m, never a success value.
C2_ErrorVariantSurfaced ==
    (AdminAnswered /\ outcome.resp.tag = "Error")
        => /\ phase = "ready"
           /\ result.kind = "Err"
           /\ result.err.type = "ExternalApiWireError"
           /\ result.err.val = outcome.resp.payload

C2_Witness ==
    /\ AdminAnswered
    /\ call.op = "enable_app"
    /\ outcome.resp = Resp("Error", <<"unknown cell">>)
    /\ result.kind = "Err"

\* C3: an admin operation answered with the variant it accepts returns Ok with
\* that variant's payload unchanged.
C3_AcceptedPayloadUnchanged ==
    (AdminAnswered /\ outcome.resp.tag = Accepted(call.op))
        => /\ phase = "ready"
           /\ result.kind = "Ok"
           /\ IF call.op = "enable_app"
              THEN /\ Len(result.value) = 1
                   /\ result.value[1].app = outcome.resp.payload[1]
                   /\ result.value[1].errors = outcome.resp.payload[2]
              ELSE result.value = outcome.resp.payload

C3_Witness ==
    /\ AdminAnswered
    /\ call.op = "enable_app"
    /\ outcome.resp.tag = "AppEnabled"
    /\ outcome.resp.payload[2] # <<>>
    /\ result.kind = "Ok"

\* C4: over any sequence of close() calls the handle is closed exactly once, by
\* the first call; every later close() changes no state.
C4_CloseIdempotent ==
    /\ [](handleCloses <= 1 /\ (closeCalls >= 1 => handleCloses = 1 /\ handle = <<>>))
    /\ [][(closeCalls' # closeCalls /\ closeCalls >= 1)
            => UNCHANGED <<phase, connVars, handle, handleCloses, callVars>>]_vars

C4_Witness ==
    /\ closeCalls = MaxCloseCalls
    /\ handleCloses = 1

C6_ConnectSucceedsOnFirstOk ==
    /\ [](/\ okAttempts <= 1
          /\ okAttempts = 1 => (phase \in {"ready", "panicked"} /\ connectResult.kind = "Ok")
          /\ (phase = "failed" /\ UrlParse(addr).ok)
                => (okAttempts = 0 /\ attempts = MaxRetries + 1))
    /\ [][okAttempts >= 1 => attempts' = attempts]_vars

C6_Witness ==
    /\ phase = "ready"
    /\ attempts = MaxRetries + 1
    /\ okAttempts = 1
    /\ lastErr = "Io"

\* C7: for a valid address whose every attempt fails, connect stops after a
\* bounded number of attempts and returns the transport error of the last one.
C7_ConnectFailsWithLastError ==
    /\ attempts <= MaxRetries + 1
    /\ (phase = "connecting" => attempts <= MaxRetries)
    /\ (phase = "failed" /\ UrlParse(addr).ok)
          => /\ attempts = MaxRetries + 1
             /\ connectResult = Err("WebsocketError", <<lastErr>>)

C7_Witness ==
    /\ phase = "failed"
    /\ UrlParse(addr).ok
    /\ attempts = MaxRetries + 1
    /\ connectResult = Err("WebsocketError", <<"Shutdown">>)

\* a successful authorize_signing_credentials call has just returned
AuthorizeSucceeded ==
    /\ status = "resolved"
    /\ call.op = "authorize_signing_credentials"
    /\ result.kind = "Ok"

\* C10: the grant a successful authorize_signing_credentials submitted has access
\* Assigned, its assignee set holds exactly the public key of the returned
\* credentials, and its secret is the capability secret of the credentials.
C10_GrantMatchesCredentials ==
    AuthorizeSucceeded
        => LET grant == call.request.payload[1].cap_grant
               creds == result.value[1]
           IN  /\ call.request.tag = "GrantZomeCallCapability"
               /\ grant.access.kind = "Assigned"
               /\ Cardinality(grant.access.assignees) = 1
               /\ grant.access.assignees = {creds.signing_agent_key}
               /\ creds.signing_agent_key
                     = AgentPubKeyFromRaw32(VerifyingKeyBytes(creds.keypair))
               /\ grant.access.secret = creds.cap_secret

C10_Witness ==
    /\ AuthorizeSucceeded
    /\ call.keypair = 5
    /\ result.value[1].cap_secret.bytes[2] = 14

\* authorize_signing_credentials has returned (or unwound) after its grant
AuthorizeResolved ==
    /\ status = "resolved"
    /\ call.op = "authorize_signing_credentials"

\* C11: when the grant round trip inside authorize_signing_credentials fails
\* (transport error, host Error variant or mismatched variant), authorize
\* returns an error value and no credentials.
C11_GrantFailureReturnsError ==
    (AuthorizeResolved /\ (~outcome.ok \/ outcome.resp.tag # "ZomeCallCapabilityGranted"))
        => /\ phase = "ready"
           /\ result.kind = "Err"
           /\ result.value = <<>>

\* the grant inside authorize_signing_credentials returned an error
AuthorizeGrantErrored ==
    /\ AuthorizeResolved
    /\ (~outcome.ok \/ outcome.resp.tag = "Error")

\* the ConductorApiError the grant returned
GrantError ==
    IF ~outcome.ok THEN [type |-> "WebsocketError", val |-> <<outcome.err>>]
    ELSE [type |-> "ExternalApiWireError", val |-> outcome.resp.payload]

\* C12 as stated: the error authorize returns is the grant's error untouched,
\* the same kind and value, not re-wrapped or re-formatted.
C12_ErrorUntouched ==
    AuthorizeGrantErrored
        => /\ result.kind = "Err"
           /\ result.err = GrantError

\* C12 as amended: the error authorize returns is an anyhow error whose message
\* is "Conductor API error: " followed by the Debug rendering of the grant's
\* error, its kind and its value.
C12_ErrorReformatted ==
    AuthorizeGrantErrored
        => /\ phase = "ready"
           /\ result.kind = "Err"
           /\ result.err.type = "anyhow"
           /\ result.err.val = <<"Conductor API error: ", GrantError.type>> \o GrantError.val

C12_Witness ==
    /\ AuthorizeGrantErrored
    /\ outcome.ok
    /\ result.err.val = <<"Conductor API error: ", "ExternalApiWireError", "unknown cell">>

\* C13 as stated: the credentials returned on success contain the keypair, the
\* capability secret and the cell identity, equal to the cell identity of the
\* request and of the grant.
C13_CredentialsCarryCellId ==
    AuthorizeSucceeded
        => LET creds == result.value[1] IN
           /\ "keypair" \in DOMAIN creds
           /\ "cap_secret" \in DOMAIN creds
           /\ call.request.payload[1].cell_id = call.arg[1].cell_id
           /\ "cell_id" \in DOMAIN creds
           /\ creds.cell_id = call.arg[1].cell_id

\* C13 as amended: the credentials returned on success contain the signing agent
\* key, the keypair and the capability secret that were drawn, and no cell
\* identity; the cell identity of the request is the one sent in the grant.
C13_CredentialsWithoutCellId ==
    AuthorizeSucceeded
        => LET creds == result.value[1] IN
           /\ DOMAIN creds = {"signing_agent_key", "keypair", "cap_secret"}
           /\ creds.keypair = call.keypair
           /\ creds.cap_secret.bytes = call.cap_secret
           /\ call.request.payload[1].cell_id = call.arg[1].cell_id

C13_Witness ==
    /\ AuthorizeSucceeded
    /\ call.arg[1].cell_id = <<"dna2", "agent2">>
    /\ call.request.payload[1].cell_id = <<"dna2", "agent2">>
    /\ result.value[1].keypair = 3

\* authorize_signing_credentials has submitted its grant
AuthorizeSubmitted ==
    /\ status \in {"awaiting", "resolved"}
    /\ call.op = "authorize_signing_credentials"

\* C14: the function scope of the grant authorize_signing_credentials submits is
\* the caller-supplied scope when one is given, and all functions when the
\* request's functions field is absent.
C14_GrantFunctionScope ==
    AuthorizeSubmitted
        => LET scope == call.request.payload[1].cap_grant.functions
               given == call.arg[1].functions
           IN  /\ given = <<>> => scope = [kind |-> "All", fns |-> {}]
               /\ given # <<>> => scope = given[1]

C14_Witness ==
    /\ AuthorizeSucceeded
    /\ call.arg[1].functions = <<ListedFunctions>>
    /\ call.request.payload[1].cap_grant.functions.kind = "Listed"

\* attach_app_interface was called the way the tests ask for any port: port 0
AttachAnyPort ==
    /\ status \in {"awaiting", "resolved"}
    /\ call.op = "attach_app_interface"
    /\ call.arg = <<0>>

\* the host answered the attach with the port it bound
AttachAnswered ==
    /\ status = "resolved"
    /\ outcome.ok
    /\ outcome.resp.tag = "AppInterfaceAttached"

C16_SecretIs64Bytes ==
    /\ AuthorizeSubmitted
          => Len(call.request.payload[1].cap_grant.access.secret.bytes) = 64
    /\ AuthorizeSucceeded
          => Len(result.value[1].cap_secret.bytes) = 64

C16_Witness ==
    /\ AuthorizeSucceeded
    /\ Len(result.value[1].cap_secret.bytes) = 64
    /\ call.request.payload[1].cap_grant.access.secret.bytes[64] = 255

C18_OneFramePerCall ==
    /\ []((status \in {"awaiting", "resolved"} /\ call.op \in AdminOps) => framesSent = 1)
    /\ [][(status = "awaiting" /\ call.op \in AdminOps /\ outcome' # outcome)
            => (status' = "resolved" /\ framesSent' = framesSent /\ inflight' = <<>>)]_vars

C18_Witness ==
    /\ status = "resolved"
    /\ call.op = "install_app"
    /\ ~outcome.ok
    /\ result = Err("WebsocketError", <<"Io">>)
    /\ framesSent = 1

\* C19: authorize_signing_credentials draws its key and its secret and then
\* makes exactly one round trip, a GrantZomeCallCapability request built from
\* them; it sends nothing else, on success or on failure.
C19_AuthorizeOneRoundTrip ==
    AuthorizeSubmitted
        => LET access == call.request.payload[1].cap_grant.access IN
           /\ framesSent = 1
           /\ call.request.tag = "GrantZomeCallCapability"
           /\ access.secret.bytes = call.cap_secret
           /\ access.assignees = {AgentPubKeyFromRaw32(VerifyingKeyBytes(call.keypair))}
           /\ status = "awaiting" => inflight = <<call.request>>
           /\ status = "resolved" => inflight = <<>>

C19_Witness ==
    /\ AuthorizeResolved
    /\ ~outcome.ok
    /\ result.kind = "Err"
    /\ framesSent = 1
    /\ inflight = <<>>

\* the step in which a call completes with a success value or a host-reported error
CompletesServed ==
    /\ status = "awaiting"
    /\ status' = "resolved"
    /\ outcome'.ok
    /\ phase' # "panicked"

\* C20: a call that completes with a success value or a host-reported error
\* leaves the connection open and the client unchanged, and a later call on the
\* same client sends its own request and gets the result its own response
\* determines, as on a fresh connection.
C20_NoSessionState ==
    /\ [][CompletesServed
            => (phase' = "ready" /\ inflight' = <<>> /\ UNCHANGED <<connVars, closeVars>>)]_vars
    /\ [][(served /\ status # "awaiting" /\ status' = "awaiting")
            => (inflight' = <<call'.request>> /\ framesSent' = 1
                /\ UNCHANGED <<phase, connVars, closeVars>>)]_vars
    /\ []((served /\ status = "resolved" /\ call.op \in AdminOps /\ outcome.ok)
            => /\ outcome.resp.tag = "Error"
                  => result = Err("ExternalApiWireError", outcome.resp.payload)
               /\ outcome.resp.tag = Accepted(call.op)
                  => (phase = "ready" /\ result.kind = "Ok"))

C20_Witness ==
    /\ served
    /\ status = "awaiting"
    /\ call.op = "enable_app"
    /\ closeCalls = 0
    /\ handle # <<>>

====
